---- MODULE Spec2Model ----
(* The KnowHOWREPR representation (src/metamodel/reprs/KnowHOWREPR.c) as a   *)
(* state machine: the heap of KnowHOWREPRInstance records, STables, method   *)
(* Hashes / attribute arrays and representation tables, the single running   *)
(* call (type_object_for and instance_of are followed line by line, because  *)
(* they allocate, and the collector may run at every allocation), and the    *)
(* outcome of the last completed operation.                                  *)
EXTENDS Integers, Sequences, FiniteSets, TLC

\* ------------------------------------------------------------------ bounds
MaxObjs  == 3      \* KnowHOWREPRInstance records ever allocated
MaxReprs == 2      \* calls of KnowHOWREPR_initialize
MaxCallObjs  == 2  \* records allocated when every table slot may be called
MaxCallReprs == 1  \* tables created when every table slot may be called

\* ------------------------------------------------------- references, inputs
NULL == <<"null", 0>>                 \* PMCNULL / a zeroed pointer field
ObjRef(i)  == <<"obj", i>>            \* a KnowHOWREPRInstance (wrapped: a PMC)
STRef(i)   == <<"st", i>>             \* an STable PMC
ContRef(i) == <<"cont", i>>           \* a Hash or ResizablePMCArray PMC
ReprRef(i) == <<"repr", i>>           \* a REPR PMC (wrap_repr)

HOWs    == {<<"how", 1>>, <<"how", 2>>}   \* meta-objects handed in by the caller
Classes == {"classA"}
Names   == {"x", "y"}
Hints   == {0, 1}
IntVals == {"42"}
NumVals == {"3.14"}
StrVals == {"str"}

EXCEPTION_INVALID_OPERATION == "EXCEPTION_INVALID_OPERATION"
NO_HINT == "NO_HINT"

VARIABLES
    reprs,    \* repr id -> the REPRCommonalities table: slot -> function
    stables,  \* STable id -> [REPR, WHAT, HOW]
    objs,     \* record id -> [stable, methods, attributes, wrapped, origin, from]
    conts,    \* container id -> [kind, elems]
    live,     \* the collector-managed PMCs that have not been reclaimed
    roots,    \* the PMCs the runtime holds (everything returned to it)
    frame,    \* the running call: [fn, pc, self, arg, obj, st_pmc]
    last      \* the last completed operation: [op, self, obj, args, res]

vars == <<reprs, stables, objs, conts, live, roots, frame, last>>

NoFrame == [fn |-> "none", pc |-> 0, self |-> NULL, arg |-> NULL,
            obj |-> NULL, st_pmc |-> NULL]
NoArgs  == [class |-> "none", name |-> "none", hint |-> NO_HINT, value |-> "none"]

\* ------------------------------------------------------------ pure functions

\* Bug variant: mem_allocate_typed, the fields hold whatever was there.
UnzeroedInstance(op, what) ==
    [stable |-> NULL, methods |-> ContRef(0), attributes |-> NULL,
     wrapped |-> FALSE, origin |-> op, from |-> what]

\* mem_allocate_zeroed_typed(KnowHOWREPRInstance): every field zero.
\* origin/from are history fields: which operation allocated the record and
\* from which WHAT.
ZeroedInstance(op, what) ==
    [stable |-> NULL, methods |-> NULL, attributes |-> NULL,
     wrapped |-> FALSE, origin |-> op, from |-> what]

\* Bug variant: the null test reads common.stable instead of methods.
defined_tests_stable(instance) == instance.stable # NULL

\* defined: !PMC_IS_NULL(instance->methods)
defined(instance) == instance.methods # NULL

\* Parrot_ex_throw_from_c_args(interp, NULL, EXCEPTION_INVALID_OPERATION, msg):
\* control leaves the function, no value is returned.
Throw(msg) == [outcome |-> "throw", type |-> EXCEPTION_INVALID_OPERATION,
               msg |-> msg, value |-> "none"]
Return(v)  == [outcome |-> "return", type |-> "none", msg |-> "none", value |-> v]

\* Bug variants: the call is swallowed / answers a default instead of throwing.
bind_attribute_ignored(obj, class_handle, name, value) == Return("none")
get_int_default(obj) == Return("0")

get_attribute(obj, class_handle, name) ==
    Throw("KnowHOWREPR does not support attribute storage")
get_attribute_with_hint(obj, class_handle, name, hint) ==
    Throw("KnowHOWREPR does not support attribute storage")
bind_attribute(obj, class_handle, name, value) ==
    Throw("KnowHOWREPR does not support attribute storage")
bind_attribute_with_hint(obj, class_handle, name, hint, value) ==
    Throw("KnowHOWREPR does not support attribute storage")
hint_for(class_handle, name) == Return(NO_HINT)
set_int(obj, value) == Throw("KnowHOWREPR cannot box a native int")
get_int(obj)        == Throw("KnowHOWREPR cannot unbox to a native int")
set_num(obj, value) == Throw("KnowHOWREPR cannot box a native num")
get_num(obj)        == Throw("KnowHOWREPR cannot unbox to a native num")
set_str(obj, value) == Throw("KnowHOWREPR cannot box a native string")
get_str(obj)        == Throw("KnowHOWREPR cannot unbox to a native string")

\* Bug variant: the attribute sequence is not marked.
gc_mark_without_attributes(instance) ==
    (IF instance.stable # NULL THEN <<instance.stable>> ELSE <<>>)
    \o (IF instance.methods # NULL THEN <<instance.methods>> ELSE <<>>)

\* gc_mark: the references handed to Parrot_gc_mark_PMC_alive, in call order.
gc_mark(instance) ==
    (IF instance.stable # NULL THEN <<instance.stable>> ELSE <<>>)
    \o (IF instance.methods # NULL THEN <<instance.methods>> ELSE <<>>)
    \o (IF instance.attributes # NULL THEN <<instance.attributes>> ELSE <<>>)

\* The function table KnowHOWREPR_initialize populates.
ReprTable ==
    [type_object_for |-> "type_object_for", instance_of |-> "instance_of",
     defined |-> "defined", get_attribute |-> "get_attribute",
     get_attribute_with_hint |-> "get_attribute_with_hint",
     bind_attribute |-> "bind_attribute",
     bind_attribute_with_hint |-> "bind_attribute_with_hint",
     hint_for |-> "hint_for", set_int |-> "set_int", get_int |-> "get_int",
     set_num |-> "set_num", get_num |-> "get_num", set_str |-> "set_str",
     get_str |-> "get_str", gc_mark |-> "gc_mark"]

\* ------------------------------------------------------------- the collector

\* What marking a live PMC marks in turn: a wrapped KnowHOWREPRInstance through
\* the representation's gc_mark, an STable through its three references.
\* A reclaimed PMC is not followed.
Marks(r) ==
    IF r \notin live THEN {}
    ELSE IF r[1] = "obj"
         THEN {gc_mark(objs[r[2]])[k] : k \in 1..Len(gc_mark(objs[r[2]]))}
    ELSE IF r[1] = "st"
         THEN {stables[r[2]].REPR, stables[r[2]].WHAT, stables[r[2]].HOW} \ {NULL}
    ELSE {}

RECURSIVE Reach(_)
Reach(marked) ==
    LET more == marked \cup UNION {Marks(r) : r \in marked}
    IN  IF more = marked THEN marked ELSE Reach(more)

\* The PMC-valued arguments and locals of the running call (self, WHAT,
\* st_pmc): the C stack is scanned, so they count as roots. The record being
\* built (obj) is malloc'ed memory: until it is wrapped and reachable nothing
\* marks what its fields point at.
FrameRoots == {frame.self, frame.arg, frame.st_pmc} \ {NULL}

\* One collection cycle: mark from the roots, reclaim everything unmarked.
Collect == live \cap Reach(roots \cup FrameRoots)

\* A PMC allocation: the collector may run first (gc), then `new' exists.
AfterAlloc(gc, new) == (IF gc THEN Collect ELSE live) \cup {new}

Returned == {i \in DOMAIN objs : ObjRef(i) \in roots}
NextObj  == Len(objs) + 1
NextST   == Len(stables) + 1
NextCont == Len(conts) + 1
NextRepr == Len(reprs) + 1
Idle     == frame.fn = "none"

Init ==
    /\ reprs = <<>>
    /\ stables = <<>>
    /\ objs = <<>>
    /\ conts = <<>>
    /\ live = {}
    /\ roots = {}
    /\ frame = NoFrame
    /\ last = [op |-> "none", self |-> NULL, obj |-> NULL, args |-> NoArgs,
               res |-> Return("none")]

\* KnowHOWREPR_initialize: a new table per call, populated, wrapped in a PMC.
KnowHOWREPR_initialize ==
    /\ Idle
    /\ Len(reprs) < MaxReprs
    /\ \E gc \in BOOLEAN :
         /\ reprs' = Append(reprs, ReprTable)
         /\ live' = AfterAlloc(gc, ReprRef(NextRepr))
         /\ roots' = roots \cup {ReprRef(NextRepr)}
         /\ last' = [op |-> "KnowHOWREPR_initialize", self |-> NULL, obj |-> NULL,
                     args |-> NoArgs, res |-> Return(ReprRef(NextRepr))]
    /\ UNCHANGED <<stables, objs, conts, frame>>

\* ---- type_object_for(self, HOW), line by line

\* line 15: obj = mem_allocate_zeroed_typed(KnowHOWREPRInstance)
type_object_for_alloc ==
    /\ Idle
    /\ Len(objs) < MaxObjs
    /\ \E r \in DOMAIN reprs, HOW \in HOWs :
         /\ reprs[r].type_object_for = "type_object_for"
         /\ objs' = Append(objs, ZeroedInstance("type_object_for", NULL))
         /\ frame' = [fn |-> "type_object_for", pc |-> 18, self |-> ReprRef(r),
                      arg |-> HOW, obj |-> ObjRef(NextObj), st_pmc |-> NULL]
    /\ UNCHANGED <<reprs, stables, conts, live, roots, last>>

\* create_stable(interp, REPR, HOW): a new STable PMC holding REPR and HOW,
\* its WHAT not yet set.
create_stable(REPR, HOW) == [REPR |-> REPR, WHAT |-> NULL, HOW |-> HOW]

\* Bug variant: create_stable(interp, HOW, self), the arguments swapped.
type_object_for_create_stable_swapped ==
    /\ frame.fn = "type_object_for" /\ frame.pc = 18
    /\ \E gc \in BOOLEAN :
         /\ stables' = Append(stables, create_stable(frame.arg, frame.self))
         /\ live' = AfterAlloc(gc, STRef(NextST))
         /\ frame' = [frame EXCEPT !.st_pmc = STRef(NextST), !.pc = 22]
    /\ UNCHANGED <<reprs, objs, conts, roots, last>>

\* Bug variant: the STable is built on the first table created, not on self.
type_object_for_create_stable_first_table ==
    /\ frame.fn = "type_object_for" /\ frame.pc = 18
    /\ \E gc \in BOOLEAN :
         /\ stables' = Append(stables, create_stable(ReprRef(1), frame.arg))
         /\ live' = AfterAlloc(gc, STRef(NextST))
         /\ frame' = [frame EXCEPT !.st_pmc = STRef(NextST), !.pc = 22]
    /\ UNCHANGED <<reprs, objs, conts, roots, last>>

\* lines 18-19: st_pmc = create_stable(interp, self, HOW)
type_object_for_create_stable ==
    /\ frame.fn = "type_object_for" /\ frame.pc = 18
    /\ \E gc \in BOOLEAN :
         /\ stables' = Append(stables, create_stable(frame.self, frame.arg))
         /\ live' = AfterAlloc(gc, STRef(NextST))
         /\ frame' = [frame EXCEPT !.st_pmc = STRef(NextST), !.pc = 22]
    /\ UNCHANGED <<reprs, objs, conts, roots, last>>

\* line 22: st->WHAT = wrap_object(interp, obj)
type_object_for_wrap ==
    /\ frame.fn = "type_object_for" /\ frame.pc = 22
    /\ \E gc \in BOOLEAN :
         /\ live' = AfterAlloc(gc, frame.obj)
         /\ objs' = [objs EXCEPT ![frame.obj[2]].wrapped = TRUE]
         /\ stables' = [stables EXCEPT ![frame.st_pmc[2]].WHAT = frame.obj]
         /\ frame' = [frame EXCEPT !.pc = 23]
    /\ UNCHANGED <<reprs, conts, roots, last>>

\* Bug variant: the back-reference is never set.
type_object_for_backref_missing ==
    /\ frame.fn = "type_object_for" /\ frame.pc = 23
    /\ frame' = [frame EXCEPT !.pc = 25]
    /\ UNCHANGED <<reprs, stables, objs, conts, live, roots, last>>

\* line 23: obj->common.stable = st_pmc
type_object_for_backref ==
    /\ frame.fn = "type_object_for" /\ frame.pc = 23
    /\ objs' = [objs EXCEPT ![frame.obj[2]].stable = frame.st_pmc]
    /\ frame' = [frame EXCEPT !.pc = 25]
    /\ UNCHANGED <<reprs, stables, conts, live, roots, last>>

\* line 25: return st->WHAT
type_object_for_return ==
    /\ frame.fn = "type_object_for" /\ frame.pc = 25
    /\ roots' = roots \cup {stables[frame.st_pmc[2]].WHAT}
    /\ last' = [op |-> "type_object_for", self |-> frame.self, obj |-> NULL,
                args |-> [NoArgs EXCEPT !.value = frame.arg],
                res |-> Return(stables[frame.st_pmc[2]].WHAT)]
    /\ frame' = NoFrame
    /\ UNCHANGED <<reprs, stables, objs, conts, live>>

\* ---- instance_of(self, WHAT), line by line

\* Bug variant: the macro is left out, the type object itself is stored.
STABLE_PMC_omitted(o) == o

\* STABLE_PMC(o): the stable field of the record behind the PMC
STABLE_PMC(o) == objs[o[2]].stable

\* lines 30-31: obj = zeroed record; obj->common.stable = STABLE_PMC(WHAT)
instance_of_alloc ==
    /\ Idle
    /\ Len(objs) < MaxObjs
    /\ \E r \in DOMAIN reprs, w \in Returned :
         /\ reprs[r].instance_of = "instance_of"
         /\ objs' = Append(objs, [ZeroedInstance("instance_of", ObjRef(w))
                                    EXCEPT !.stable = STABLE_PMC(ObjRef(w))])
         /\ frame' = [fn |-> "instance_of", pc |-> 32, self |-> ReprRef(r),
                      arg |-> ObjRef(w), obj |-> ObjRef(NextObj), st_pmc |-> NULL]
    /\ UNCHANGED <<reprs, stables, conts, live, roots, last>>

\* pmc_new(interp, enum_class_Hash / enum_class_ResizablePMCArray): empty
pmc_new(kind) == [kind |-> kind, elems |-> <<>>]

\* line 32: obj->methods = pmc_new(interp, enum_class_Hash)
instance_of_methods ==
    /\ frame.fn = "instance_of" /\ frame.pc = 32
    /\ \E gc \in BOOLEAN :
         /\ conts' = Append(conts, pmc_new("Hash"))
         /\ live' = AfterAlloc(gc, ContRef(NextCont))
         /\ objs' = [objs EXCEPT ![frame.obj[2]].methods = ContRef(NextCont)]
         /\ frame' = [frame EXCEPT !.pc = 33]
    /\ UNCHANGED <<reprs, stables, roots, last>>

\* line 33: obj->attributes = pmc_new(interp, enum_class_ResizablePMCArray)
instance_of_attributes ==
    /\ frame.fn = "instance_of" /\ frame.pc = 33
    /\ \E gc \in BOOLEAN :
         /\ conts' = Append(conts, pmc_new("ResizablePMCArray"))
         /\ live' = AfterAlloc(gc, ContRef(NextCont))
         /\ objs' = [objs EXCEPT ![frame.obj[2]].attributes = ContRef(NextCont)]
         /\ frame' = [frame EXCEPT !.pc = 34]
    /\ UNCHANGED <<reprs, stables, roots, last>>

\* line 34: return wrap_object(interp, obj)
instance_of_return ==
    /\ frame.fn = "instance_of" /\ frame.pc = 34
    /\ \E gc \in BOOLEAN :
         /\ live' = AfterAlloc(gc, frame.obj)
         /\ objs' = [objs EXCEPT ![frame.obj[2]].wrapped = TRUE]
         /\ roots' = roots \cup {frame.obj}
         /\ last' = [op |-> "instance_of", self |-> frame.self, obj |-> frame.arg,
                     args |-> NoArgs, res |-> Return(frame.obj)]
         /\ frame' = NoFrame
    /\ UNCHANGED <<reprs, stables, conts>>

\* ---- the operations that complete in one step, called through the table

\* A call of table slot `slot' on returned object o: nothing but `last' changes.
Completed(op, r, o, args, res) ==
    /\ last' = [op |-> op, self |-> ReprRef(r), obj |-> o, args |-> args, res |-> res]
    /\ UNCHANGED <<reprs, stables, objs, conts, live, roots, frame>>

defined_call ==
    /\ Idle
    /\ \E r \in DOMAIN reprs, o \in Returned :
         /\ reprs[r].defined = "defined"
         /\ Completed("defined", r, ObjRef(o), NoArgs, Return(defined(objs[o])))

get_attribute_call ==
    /\ Idle
    /\ \E r \in DOMAIN reprs, o \in Returned, c \in Classes, n \in Names :
         /\ reprs[r].get_attribute = "get_attribute"
         /\ Completed("get_attribute", r, ObjRef(o),
                      [NoArgs EXCEPT !.class = c, !.name = n],
                      get_attribute(ObjRef(o), c, n))

get_attribute_with_hint_call ==
    /\ Idle
    /\ \E r \in DOMAIN reprs, o \in Returned, c \in Classes, n \in Names, h \in Hints :
         /\ reprs[r].get_attribute_with_hint = "get_attribute_with_hint"
         /\ Completed("get_attribute_with_hint", r, ObjRef(o),
                      [NoArgs EXCEPT !.class = c, !.name = n, !.hint = h],
                      get_attribute_with_hint(ObjRef(o), c, n, h))

bind_attribute_call ==
    /\ Idle
    /\ \E r \in DOMAIN reprs, o \in Returned, c \in Classes, n \in Names, v \in IntVals :
         /\ reprs[r].bind_attribute = "bind_attribute"
         /\ Completed("bind_attribute", r, ObjRef(o),
                      [NoArgs EXCEPT !.class = c, !.name = n, !.value = v],
                      bind_attribute(ObjRef(o), c, n, v))

bind_attribute_with_hint_call ==
    /\ Idle
    /\ \E r \in DOMAIN reprs, o \in Returned, c \in Classes, n \in Names,
          h \in Hints, v \in IntVals :
         /\ reprs[r].bind_attribute_with_hint = "bind_attribute_with_hint"
         /\ Completed("bind_attribute_with_hint", r, ObjRef(o),
                      [NoArgs EXCEPT !.class = c, !.name = n, !.hint = h, !.value = v],
                      bind_attribute_with_hint(ObjRef(o), c, n, h, v))

hint_for_call ==
    /\ Idle
    /\ \E r \in DOMAIN reprs, c \in Classes, n \in Names :
         /\ reprs[r].hint_for = "hint_for"
         /\ Completed("hint_for", r, NULL, [NoArgs EXCEPT !.class = c, !.name = n],
                      hint_for(c, n))

set_int_call ==
    /\ Idle
    /\ \E r \in DOMAIN reprs, o \in Returned, v \in IntVals :
         /\ reprs[r].set_int = "set_int"
         /\ Completed("set_int", r, ObjRef(o), [NoArgs EXCEPT !.value = v],
                      set_int(ObjRef(o), v))

get_int_call ==
    /\ Idle
    /\ \E r \in DOMAIN reprs, o \in Returned :
         /\ reprs[r].get_int = "get_int"
         /\ Completed("get_int", r, ObjRef(o), NoArgs, get_int(ObjRef(o)))

set_num_call ==
    /\ Idle
    /\ \E r \in DOMAIN reprs, o \in Returned, v \in NumVals :
         /\ reprs[r].set_num = "set_num"
         /\ Completed("set_num", r, ObjRef(o), [NoArgs EXCEPT !.value = v],
                      set_num(ObjRef(o), v))

get_num_call ==
    /\ Idle
    /\ \E r \in DOMAIN reprs, o \in Returned :
         /\ reprs[r].get_num = "get_num"
         /\ Completed("get_num", r, ObjRef(o), NoArgs, get_num(ObjRef(o)))

set_str_call ==
    /\ Idle
    /\ \E r \in DOMAIN reprs, o \in Returned, v \in StrVals :
         /\ reprs[r].set_str = "set_str"
         /\ Completed("set_str", r, ObjRef(o), [NoArgs EXCEPT !.value = v],
                      set_str(ObjRef(o), v))

get_str_call ==
    /\ Idle
    /\ \E r \in DOMAIN reprs, o \in Returned :
         /\ reprs[r].get_str = "get_str"
         /\ Completed("get_str", r, ObjRef(o), NoArgs, get_str(ObjRef(o)))

\* gc_mark with a recording tracer: the result is the list of visits.
gc_mark_call ==
    /\ Idle
    /\ \E r \in DOMAIN reprs, o \in Returned :
         /\ reprs[r].gc_mark = "gc_mark"
         /\ Completed("gc_mark", r, ObjRef(o), NoArgs, Return(gc_mark(objs[o])))

\* The ten steps that build the heap.
HeapOps ==
    \/ KnowHOWREPR_initialize
    \/ type_object_for_alloc
    \/ type_object_for_create_stable
    \/ type_object_for_wrap
    \/ type_object_for_backref
    \/ type_object_for_return
    \/ instance_of_alloc
    \/ instance_of_methods
    \/ instance_of_attributes
    \/ instance_of_return

\* Every operation of the table, on a heap of at most MaxCallObjs records.
Next ==
    \/ KnowHOWREPR_initialize /\ Len(reprs) < MaxCallReprs
    \/ type_object_for_alloc /\ Len(objs) < MaxCallObjs
    \/ type_object_for_create_stable
    \/ type_object_for_wrap
    \/ type_object_for_backref
    \/ type_object_for_return
    \/ instance_of_alloc /\ Len(objs) < MaxCallObjs
    \/ instance_of_methods
    \/ instance_of_attributes
    \/ instance_of_return
    \/ defined_call
    \/ get_attribute_call
    \/ get_attribute_with_hint_call
    \/ bind_attribute_call
    \/ bind_attribute_with_hint_call
    \/ hint_for_call
    \/ set_int_call
    \/ get_int_call
    \/ set_num_call
    \/ get_num_call
    \/ set_str_call
    \/ get_str_call
    \/ gc_mark_call

Spec == Init /\ [][Next]_vars

\* The heap-building steps alone, on a heap of at most MaxObjs records and
\* MaxReprs tables.
SpecHeap == Init /\ [][HeapOps]_vars

\* ================================================================== claims

UnsupportedOperation == EXCEPTION_INVALID_OPERATION
AttrOps == {"get_attribute", "get_attribute_with_hint", "bind_attribute",
            "bind_attribute_with_hint"}
BoxOps  == {"set_int", "get_int", "set_num", "get_num", "set_str", "get_str"}
HeapUnchanged == UNCHANGED <<reprs, stables, objs, conts, live, roots, frame>>

\* C1: for every object handed back to the runtime, is_defined is true exactly
\* when instance_of produced it: a type object has a null method mapping and
\* is not defined, an instance has a non-null one and is defined; a completed
\* defined call answers accordingly.
C1_DefinedIffInstanceOf ==
    /\ \A o \in Returned :
         /\ defined(objs[o]) <=> (objs[o].origin = "instance_of")
         /\ objs[o].origin = "type_object_for" => objs[o].methods = NULL
         /\ objs[o].origin = "instance_of" => objs[o].methods # NULL
    /\ last.op = "defined" =>
         last.res = Return(objs[last.obj[2]].origin = "instance_of")

C1_Witness ==
    /\ \E t \in Returned : objs[t].origin = "type_object_for" /\ ~defined(objs[t])
    /\ last.op = "defined"
    /\ objs[last.obj[2]].origin = "instance_of"
    /\ last.res.value = TRUE

\* C2: every instance carries the STable reference of the type object it was
\* made from, that STable's WHAT is a type object, and no step of instance_of
\* creates an STable or changes one.
C2_InstanceSharesSTable ==
    /\ [](\A i \in DOMAIN objs :
            objs[i].origin = "instance_of" =>
              /\ objs[i].stable = objs[objs[i].from[2]].stable
              /\ objs[i].stable[1] = "st"
              /\ objs[stables[objs[i].stable[2]].WHAT[2]].origin = "type_object_for")
    /\ [][(frame.fn = "instance_of" \/ frame'.fn = "instance_of")
            => stables' = stables]_vars

C2_Witness ==
    /\ Idle
    /\ \E t, i, j \in Returned :
         /\ i # j
         /\ objs[t].origin = "type_object_for"
         /\ objs[i].origin = "instance_of" /\ objs[i].from = ObjRef(t)
         /\ objs[j].origin = "instance_of" /\ objs[j].from = ObjRef(t)
         /\ objs[i].stable = objs[t].stable /\ objs[j].stable = objs[t].stable

\* C3: a completed get_attribute, get_attribute_with_hint, bind_attribute or
\* bind_attribute_with_hint call has thrown UnsupportedOperation, returned no
\* value, and left every object, STable and container as it was.
C3_AttributeOpsFail ==
    [][(last' # last /\ last'.op \in AttrOps) =>
         /\ last'.res.outcome = "throw"
         /\ last'.res.type = UnsupportedOperation
         /\ last'.res.value = "none"
         /\ HeapUnchanged]_vars

C3_Witness ==
    /\ last.op = "bind_attribute"
    /\ objs[last.obj[2]].origin = "instance_of"
    /\ last.args.name = "x" /\ last.args.value = "42"
    /\ last.res.outcome = "throw"

\* C4: a completed set_int, get_int, set_num, get_num, set_str or get_str call
\* has thrown UnsupportedOperation, returned no value, and changed nothing.
C4_BoxingOpsFail ==
    [][(last' # last /\ last'.op \in BoxOps) =>
         /\ last'.res.outcome = "throw"
         /\ last'.res.type = UnsupportedOperation
         /\ last'.res.value = "none"
         /\ HeapUnchanged]_vars

C4_Witness ==
    /\ last.op = "get_str"
    /\ objs[last.obj[2]].origin = "instance_of"
    /\ last.res.outcome = "throw"

\* C5: gc_mark visits the non-null ones of STable reference, method mapping,
\* attribute sequence, once each and in that order: the STable alone for a
\* type object, all three for an instance; it changes nothing.
C5_TraceVisitsOwnedRefs ==
    [][(last' # last /\ last'.op = "gc_mark") =>
         LET o == objs[last'.obj[2]]
             v == last'.res.value
             IsRef(x) == x # NULL
         IN  /\ v = SelectSeq(<<o.stable, o.methods, o.attributes>>, IsRef)
             /\ o.origin = "type_object_for" => v = <<o.stable>>
             /\ o.origin = "instance_of" =>
                  /\ v = <<o.stable, o.methods, o.attributes>>
                  /\ Cardinality({v[1], v[2], v[3]}) = 3
             /\ HeapUnchanged]_vars

C5_Witness ==
    /\ last.op = "gc_mark"
    /\ objs[last.obj[2]].origin = "instance_of"
    /\ Len(last.res.value) = 3

C5_WitnessTypeObject ==
    /\ last.op = "gc_mark"
    /\ objs[last.obj[2]].origin = "type_object_for"
    /\ Len(last.res.value) = 1

\* C6 (as claimed): in every state, between the steps of type_object_for too,
\* the WHAT of an STable points back at that STable.
C6_BackrefNeverNull ==
    \A s \in DOMAIN stables :
        stables[s].WHAT # NULL => objs[stables[s].WHAT[2]].stable = STRef(s)

\* C6 (amended): the WHAT of an STable points back at that STable in every
\* state except the one between line 22 (st->WHAT is set) and line 23 (the
\* back-reference is set) of type_object_for; in particular at every
\* allocation, where the collector may look, and once the call has returned.
C6_BackrefSetOutsidePublishGap ==
    (frame.fn = "type_object_for" /\ frame.pc = 23) \/ C6_BackrefNeverNull

C6_Witness ==
    /\ frame.fn = "instance_of" /\ frame.pc = 33
    /\ \E s \in DOMAIN stables :
         /\ stables[s].WHAT = frame.arg
         /\ objs[frame.arg[2]].stable = STRef(s)

\* C7: type_object_for returns an object not handed out before, with an
\* STable created by this call whose REPR is self, whose HOW is the argument,
\* whose WHAT is the returned object, and to which the object points back;
\* between calls every STable has exactly one type object and no two share
\* one; an STable's WHAT, once set, is never rebound.
C7_FreshTypeObjectAndSTable ==
    /\ [](Idle =>
            /\ \A s \in DOMAIN stables :
                 /\ stables[s].WHAT # NULL
                 /\ objs[stables[s].WHAT[2]].origin = "type_object_for"
                 /\ objs[stables[s].WHAT[2]].stable = STRef(s)
            /\ \A s1, s2 \in DOMAIN stables :
                 stables[s1].WHAT = stables[s2].WHAT => s1 = s2)
    /\ [][/\ (frame.fn = "type_object_for" /\ frame'.fn = "none") =>
               LET T == last'.res.value
                   S == objs'[T[2]].stable
               IN  /\ last'.op = "type_object_for"
                   /\ T \notin roots /\ T \in roots'
                   /\ S = STRef(Len(stables))
                   /\ \A o \in Returned : objs[o].stable # S
                   /\ stables'[S[2]] = [REPR |-> frame.self, WHAT |-> T,
                                        HOW |-> frame.arg]
          /\ (frame.fn = "none" /\ frame'.fn = "type_object_for") =>
               \A s \in DOMAIN stables : frame'.obj # stables[s].WHAT
          /\ (frame.fn = "type_object_for" /\ frame.pc = 18) =>
               /\ Len(stables') = Len(stables) + 1
               /\ frame'.st_pmc = STRef(Len(stables'))
          /\ \A s \in DOMAIN stables :
               stables[s].WHAT # NULL => stables'[s] = stables[s]]_vars

C7_Witness ==
    /\ Idle
    /\ last.op = "type_object_for"
    /\ \E t1, t2 \in Returned :
         /\ t1 # t2
         /\ objs[t1].origin = "type_object_for"
         /\ objs[t2].origin = "type_object_for"
         /\ objs[t1].stable # objs[t2].stable
         /\ stables[objs[t2].stable[2]].WHAT = ObjRef(t2)

\* C8: a record whose method mapping is non-null keeps it non-null in every
\* step, and a record allocated by type_object_for is never defined.
C8_DefinedNeverLeft ==
    [][/\ \A o \in DOMAIN objs : defined(objs[o]) => defined(objs'[o])
       /\ \A o \in DOMAIN objs' :
            objs'[o].origin = "type_object_for" => ~defined(objs'[o])]_vars

C8_Witness ==
    /\ last.op \in BoxOps
    /\ \E t, i \in Returned :
         /\ objs[t].origin = "type_object_for" /\ ~defined(objs[t])
         /\ objs[i].origin = "instance_of" /\ defined(objs[i])

\* C9 (as claimed): there is one function table however often
\* KnowHOWREPR_initialize is called, and all STables refer to it.
C9_OneTableForAll ==
    /\ Len(reprs) <= 1
    /\ \A s1, s2 \in DOMAIN stables : stables[s1].REPR = stables[s2].REPR

\* C9 (amended): every call of KnowHOWREPR_initialize creates a new table with
\* the same slots; an STable refers to the table type_object_for was called
\* on, so the STables created through one table share it (all of them when
\* initialize ran once); no step changes a slot of an existing table or the
\* REPR of an existing STable.
C9_TablePerInitializeImmutable ==
    /\ [](/\ \A r \in DOMAIN reprs : reprs[r] = ReprTable
          /\ \A s \in DOMAIN stables :
               stables[s].REPR \in {ReprRef(r) : r \in DOMAIN reprs}
          /\ Len(reprs) = 1 => \A s \in DOMAIN stables : stables[s].REPR = ReprRef(1))
    /\ [][/\ \A r \in DOMAIN reprs : r \in DOMAIN reprs' /\ reprs'[r] = reprs[r]
          /\ \A s \in DOMAIN stables : stables'[s].REPR = stables[s].REPR
          /\ Len(stables') > Len(stables) =>
               stables'[Len(stables')].REPR = frame.self]_vars

C9_Witness ==
    /\ Len(reprs) = 2
    /\ \E s1, s2 \in DOMAIN stables :
         /\ stables[s1].REPR = ReprRef(2)
         /\ stables[s2].REPR = ReprRef(2)
         /\ s1 # s2

\* C10: nothing a returned object refers to has been reclaimed: its STable,
\* and its method mapping and attribute sequence when it has them, exist.
C10_NoPrematureReclaim ==
    \A o \in Returned :
        /\ objs[o].stable \in live
        /\ objs[o].methods # NULL => objs[o].methods \in live
        /\ objs[o].attributes # NULL => objs[o].attributes \in live
====
